---------------------------- MODULE Spec2Model ----------------------------
(***************************************************************************)
(* ZotRoute itinerary search (zotroute-backend/app/main.py): the direct /  *)
(* loop connection finder plan_trip and the bounded breadth-first          *)
(* multi-transfer search plan_multi_transfer, run against a read-only      *)
(* schedule (tables stops, routes, trips, stop_times, transfers).          *)
(*                                                                         *)
(* Text values (time-of-day strings, the arrive_by parameter) are          *)
(* sequences of one-character strings, so that Python's strip / split /    *)
(* int / format and SQL's TRIM and text comparison are computed on the     *)
(* characters.  SQL NULL and Python None are the value NULL.               *)
(***************************************************************************)
EXTENDS Integers, Sequences, FiniteSets, TLC

\* ------------------------------------------------------------------------
\* Characters and text
\* ------------------------------------------------------------------------

Digits == {"0", "1", "2", "3", "4", "5", "6", "7", "8", "9"}

\* Code point of a character (the characters the model's texts are made of).
Ord(c) ==
  CASE c = " " -> 32
    [] c = "0" -> 48 [] c = "1" -> 49 [] c = "2" -> 50 [] c = "3" -> 51
    [] c = "4" -> 52 [] c = "5" -> 53 [] c = "6" -> 54 [] c = "7" -> 55
    [] c = "8" -> 56 [] c = "9" -> 57
    [] c = ":" -> 58
    [] c = "x" -> 120

\* SQL NULL / Python None: a value no text equals (no text holds a
\* four-character element).
NULL == <<"NULL">>

\* Python str.strip(): whitespace removed at both ends.
RECURSIVE LStrip(_)
LStrip(s) == IF s # <<>> /\ Head(s) = " " THEN LStrip(Tail(s)) ELSE s

RECURSIVE RStrip(_)
RStrip(s) ==
  IF s # <<>> /\ s[Len(s)] = " " THEN RStrip(SubSeq(s, 1, Len(s) - 1)) ELSE s

Strip(s) == RStrip(LStrip(s))

\* SQL TRIM(x): spaces removed at both ends, NULL for NULL.
SqlTrim(s) == IF s = NULL THEN NULL ELSE Strip(s)

\* Python's truth value of an Optional[str]: None and "" are false.
Truthy(s) == s # NULL /\ s # <<>>

\* Python s.split(':'): the pieces between colons (always at least one).
RECURSIVE SplitFrom(_, _, _)
SplitFrom(s, i, cur) ==
  IF i > Len(s) THEN <<cur>>
  ELSE IF s[i] = ":" THEN <<cur>> \o SplitFrom(s, i + 1, <<>>)
  ELSE SplitFrom(s, i + 1, Append(cur, s[i]))

Split(s) == SplitFrom(s, 1, <<>>)

\* Python int(s) on the model's characters: surrounding whitespace is
\* ignored, then one or more decimal digits; anything else raises
\* ValueError, which is the value -1 here (no text of the model denotes a
\* negative number).
RECURSIVE DigitsValue(_, _)
DigitsValue(s, acc) ==
  IF s = <<>> THEN acc ELSE DigitsValue(Tail(s), 10 * acc + (Ord(Head(s)) - 48))

PyInt(s) ==
  LET t == Strip(s)
  IN IF t = <<>> \/ \E i \in 1..Len(t) : t[i] \notin Digits THEN -1
     ELSE DigitsValue(t, 0)

\* The decimal digits of a natural number.
DigitChar(d) == CHOOSE c \in Digits : Ord(c) = 48 + d

RECURSIVE NatToText(_)
NatToText(n) ==
  IF n < 10 THEN <<DigitChar(n)>>
  ELSE Append(NatToText(n \div 10), DigitChar(n % 10))

\* Python format spec :02d for a non-negative int.
Fmt02d(n) == IF n < 10 THEN <<"0">> \o NatToText(n) ELSE NatToText(n)

\* Text comparison a <= b by code points (SQL text <= under the C collation;
\* all texts compared in the model differ first at a digit or are equal).
RECURSIVE TextLE(_, _)
TextLE(a, b) ==
  IF a = <<>> THEN TRUE
  ELSE IF b = <<>> THEN FALSE
  ELSE IF Ord(Head(a)) < Ord(Head(b)) THEN TRUE
  ELSE IF Ord(Head(a)) > Ord(Head(b)) THEN FALSE
  ELSE TextLE(Tail(a), Tail(b))

\* ------------------------------------------------------------------------
\* Time-of-day helpers of plan_multi_transfer
\* ------------------------------------------------------------------------

\* parse_time_str: the arrive_by parameter normalised to HH:MM:SS, or NULL
\* (None) when it is absent, empty or does not parse.
parse_time_str(t_str) ==
  IF ~Truthy(t_str) THEN NULL
  ELSE LET t == Strip(t_str)
       IN IF \A i \in 1..Len(t) : t[i] # ":"
          THEN IF PyInt(t) < 0 THEN NULL
               ELSE Fmt02d(PyInt(t)) \o <<":", "0", "0", ":", "0", "0">>
          ELSE LET parts == [i \in 1..Len(Split(t)) |-> PyInt(Split(t)[i])]
               IN IF \E i \in 1..Len(parts) : parts[i] < 0 THEN NULL
                  ELSE Fmt02d(parts[1]) \o <<":">> \o Fmt02d(parts[2]) \o <<":">>
                       \o Fmt02d(IF Len(parts) > 2 THEN parts[3] ELSE 0)

\* get_py_time: a datetime.time as seconds since midnight, hour taken
\* modulo 24; midnight (0) for an empty text and for every text that raises
\* (not three integer fields, or minute / second out of range).
get_py_time(t_str) ==
  IF ~Truthy(t_str) THEN 0
  ELSE LET f == Split(Strip(t_str))
       IN IF Len(f) # 3 THEN 0
          ELSE LET h == PyInt(f[1])
                   m == PyInt(f[2])
                   s == PyInt(f[3])
               IN IF h < 0 \/ m < 0 \/ s < 0 \/ m > 59 \/ s > 59 THEN 0
                  ELSE (h % 24) * 3600 + m * 60 + s


\* ------------------------------------------------------------------------
\* The schedule store
\* ------------------------------------------------------------------------

VARIABLES
  stops,            \* table stops: [stop_id, stop_name, pos]
  stop_times,       \* table stop_times: [trip_id, stop_id, arrival_time,
                    \*                    departure_time, stop_sequence]
  transfers,        \* table transfers: [from_stop_id, to_stop_id, walk_meters]
  pc,               \* "idle", "search" (inside the while loop), "done"
  endpoint,         \* the handler serving the request
  origin_stop_id,   \* request parameters of plan_trip and
  dest_stop_id,     \* plan_multi_transfer; in plan_trip_by_coords the ids
                    \* of the nearest stops (NULL before they are resolved)
  arrive_by,
  origin_pos,       \* request parameters of plan_trip_by_coords (0 in the
  dest_pos,         \* other handlers)
  orig_walk_meters, \* plan_trip_by_coords: rounded distances to the
  dest_walk_meters, \* nearest stops
  queue,            \* deque of [curr_id, path, constraint]
  visited,          \* set of stop ids
  response,         \* what the handler returned or raised
  previous,         \* the answers the client got to the same request before
  sql_errors,       \* store queries that raised during this request
  iterations,       \* iterations of the while loop so far in this request
  other             \* a second call of plan_multi_transfer serving the same
                    \* request at the same time: its own [pc, queue,
                    \* visited, response]

schedule == <<stops, stop_times, transfers>>

\* The request and what plan_trip_by_coords resolves from it on entry.
request == <<endpoint, origin_stop_id, dest_stop_id, arrive_by, origin_pos,
             dest_pos, orig_walk_meters, dest_walk_meters>>

vars == <<schedule, request, pc, queue, visited, response, previous, sql_errors,
         iterations, other>>

\* Distances are rationals with denominator WalkUnit: the field walk_meters
\* of a transfers row holds the distance in units of 1/WalkUnit metre.
WalkUnit == 2

\* Python round(x) of x = n / WalkUnit: to the nearest integer, a tie to the
\* even one.
PyRound(n) ==
  LET q == n \div WalkUnit
      r == n % WalkUnit
  IN IF 2 * r < WalkUnit THEN q
     ELSE IF 2 * r > WalkUnit THEN q + 1
     ELSE IF q % 2 = 0 THEN q ELSE q + 1

\* trips JOIN routes: the route_short_name of a trip ("" when it is NULL).
\* Trip ids are pairs <<letter, number>>.
\* ST_Distance of two positions on the road (units of 1/WalkUnit metre).
ST_Distance(a, b) == IF a < b THEN b - a ELSE a - b

\* The pos of a stop whose stop_lat or stop_lon is NULL (positions proper
\* are naturals); every distance to it is NULL.
NoPosition == 0 - 1

Placed(S) == {s \in S : s.pos # NoPosition}

RouteShortName(trip_id) ==
  CASE trip_id = <<"T", 1>> -> "A"
    [] trip_id = <<"T", 2>> -> "M"
    [] trip_id = <<"T", 3>> -> ""
    [] trip_id[1] = "P" -> "N"
    [] OTHER -> "E"

StopNameOf(id) == (CHOOSE s \in stops : s.stop_id = id).stop_name

\* ------------------------------------------------------------------------
\* plan_multi_transfer: the query of one expansion step
\* ------------------------------------------------------------------------

max_depth_plus_one == 4 + 1

max_depth == 4

deadline_str == parse_time_str(arrive_by)

is_time_sensitive == deadline_str # NULL

QueryRow(tr, st1, st2) ==
  [prev_id |-> st1.stop_id, next_id |-> st2.stop_id,
   from_name |-> StopNameOf(st1.stop_id), to_name |-> StopNameOf(st2.stop_id),
   route_short_name |-> RouteShortName(st1.trip_id),
   departure_time |-> st1.departure_time, arrival_time |-> st2.arrival_time,
   walk_meters |-> tr.walk_meters]

\* SELECT DISTINCT ... WHERE ...: the rows of the unconstrained query (the
\* transfer edge leads to the boarding stop st1) and of the deadline query
\* (the edge leads to the alighting stop st2, whose trimmed arrival_time is
\* text-compared with the constraint; a NULL arrival_time compares to NULL
\* and drops the row).
\* The unconstrained query with the sequence condition st1 < st2 lost (any
\* two distinct visits of a trip).
ForwardRowsAnySequence(curr) ==
  {QueryRow(tr, st1, st2) : <<tr, st1, st2>> \in
     {x \in transfers \X stop_times \X stop_times :
        /\ x[1].from_stop_id = curr
        /\ x[1].to_stop_id = x[2].stop_id
        /\ x[2].trip_id = x[3].trip_id
        /\ x[2].stop_sequence # x[3].stop_sequence}}

\* The unconstrained query with the transfer edge joined to the alighting
\* visit st2 (the deadline query's join) instead of the boarding visit st1.
ForwardRowsEdgeToAlighting(curr) ==
  {QueryRow(tr, st1, st2) : <<tr, st1, st2>> \in
     {x \in transfers \X stop_times \X stop_times :
        /\ x[1].from_stop_id = curr
        /\ x[1].to_stop_id = x[3].stop_id
        /\ x[2].trip_id = x[3].trip_id
        /\ x[2].stop_sequence < x[3].stop_sequence}}

ForwardRows(curr) ==
  {QueryRow(tr, st1, st2) : <<tr, st1, st2>> \in
     {x \in transfers \X stop_times \X stop_times :
        /\ x[1].from_stop_id = curr
        /\ x[1].to_stop_id = x[2].stop_id
        /\ x[2].trip_id = x[3].trip_id
        /\ x[2].stop_sequence < x[3].stop_sequence}}

\* The deadline query with its time filter reduced to arrival_time IS NOT
\* NULL.
BackwardRowsNoTimeFilter(curr, constraint) ==
  {QueryRow(tr, st1, st2) : <<tr, st1, st2>> \in
     {x \in transfers \X stop_times \X stop_times :
        /\ x[1].from_stop_id = curr
        /\ x[1].to_stop_id = x[3].stop_id
        /\ x[2].trip_id = x[3].trip_id
        /\ x[2].stop_sequence < x[3].stop_sequence
        /\ x[3].arrival_time # NULL}}

BackwardRows(curr, constraint) ==
  {QueryRow(tr, st1, st2) : <<tr, st1, st2>> \in
     {x \in transfers \X stop_times \X stop_times :
        /\ x[1].from_stop_id = curr
        /\ x[1].to_stop_id = x[3].stop_id
        /\ x[2].trip_id = x[3].trip_id
        /\ x[2].stop_sequence < x[3].stop_sequence
        /\ x[3].arrival_time # NULL
        /\ TextLE(SqlTrim(x[3].arrival_time), constraint)}}

\* ORDER BY st1.departure_time ASC (NULLs last) / st2.arrival_time DESC.
OrderKeyLE(a, b) ==
  IF is_time_sensitive THEN TextLE(b.arrival_time, a.arrival_time)
  ELSE \/ b.departure_time = NULL
       \/ a.departure_time # NULL /\ TextLE(a.departure_time, b.departure_time)

\* Every order the store may return the rows in: sorted on the key, rows
\* with equal keys in any order.
RECURSIVE FetchAll(_)
FetchAll(S) ==
  IF S = {} THEN {<<>>}
  ELSE UNION {{<<r>> \o t : t \in FetchAll(S \ {r})} :
              r \in {m \in S : \A o \in S : OrderKeyLE(m, o)}}

\* ------------------------------------------------------------------------
\* plan_multi_transfer: the search
\* ------------------------------------------------------------------------

Success(new_path) ==
  [status |-> "success",
   mode |-> IF is_time_sensitive THEN "time-constrained" ELSE "generic",
   path |-> new_path]

NotFound == [status |-> "error", code |-> 404, detail |-> "No route found."]

\* The leg built from a row.  board_id and alight_id are bookkeeping of the
\* model (the stop ids of the row, stripped); the response carries the other
\* fields only.
Leg(row) ==
  [route |-> IF row.route_short_name # "" THEN row.route_short_name ELSE "Bus",
   from |-> IF row.from_name # "" THEN row.from_name ELSE "Unknown Stop",
   to |-> IF row.to_name # "" THEN row.to_name ELSE "Unknown Stop",
   walk_meters |-> PyRound(row.walk_meters),
   board_id |-> Strip(row.prev_id), alight_id |-> Strip(row.next_id)]

TimedLeg(row) ==
  [route |-> Leg(row).route, from |-> Leg(row).from, to |-> Leg(row).to,
   walk_meters |-> Leg(row).walk_meters,
   board_id |-> Leg(row).board_id, alight_id |-> Leg(row).alight_id,
   departure |-> Strip(row.departure_time), arrival |-> Strip(row.arrival_time)]

\* if (arr_dt + walk_buffer) > const_dt: continue -- both datetimes are today
\* at get_py_time(...), the buffer is dist seconds.
TooLate(row, current_constraint) ==
  get_py_time(Strip(row.arrival_time)) * WalkUnit + row.walk_meters
    > get_py_time(current_constraint) * WalkUnit

\* A row is skipped (continue) before it yields a path.
Skipped(row, current_constraint) ==
  LET next_search_id ==
        IF is_time_sensitive THEN Strip(row.prev_id) ELSE Strip(row.next_id)
  IN \/ next_search_id = <<>>
     \/ /\ is_time_sensitive
        /\ \/ ~Truthy(row.departure_time)
           \/ ~Truthy(row.arrival_time)
           \/ TooLate(row, current_constraint)

NewPath(row, path) ==
  IF is_time_sensitive THEN <<TimedLeg(row)>> \o path ELSE Append(path, Leg(row))

target_id == IF is_time_sensitive THEN Strip(origin_stop_id) ELSE Strip(dest_stop_id)

\* The test before enqueueing dropped: every stop reached is enqueued.
NotVisitedIgnored(next_search_id, vis) == TRUE

\* if next_search_id not in visited
NotVisited(next_search_id, vis) == next_search_id \notin vis

\* for row in results: ... -- the rows from index i on, with the visited set
\* and the queue as they stand; ends at the first row that reaches the target.
RECURSIVE ForRows(_, _, _, _, _, _)
ForRows(results, i, path, current_constraint, vis, q) ==
  IF i > Len(results) THEN [returned |-> FALSE, visited |-> vis, queue |-> q]
  ELSE
    LET row == results[i]
        next_search_id ==
          IF is_time_sensitive THEN Strip(row.prev_id) ELSE Strip(row.next_id)
        new_constraint_str ==
          IF is_time_sensitive THEN Strip(row.departure_time) ELSE NULL
    IN IF Skipped(row, current_constraint)
       THEN ForRows(results, i + 1, path, current_constraint, vis, q)
       ELSE IF next_search_id = target_id
       THEN [returned |-> TRUE, visited |-> vis, queue |-> q,
             path |-> NewPath(row, path)]
       ELSE IF NotVisited(next_search_id, vis)
       THEN ForRows(results, i + 1, path, current_constraint,
                    vis \cup {next_search_id},
                    Append(q, [curr_id |-> next_search_id,
                               path |-> NewPath(row, path),
                               constraint |-> new_constraint_str]))
       ELSE ForRows(results, i + 1, path, current_constraint, vis, q)

\* The handler entry with a shortcut the code does not have: a request whose
\* start is its target is answered at once with an empty path.
PlanMultiTransferAnswersSameStop ==
  /\ pc = "idle"
  /\ endpoint = "plan_multi_transfer"
  /\ LET start_node ==
           IF is_time_sensitive THEN Strip(dest_stop_id) ELSE Strip(origin_stop_id)
     IN /\ queue' = <<[curr_id |-> start_node, path |-> <<>>,
                       constraint |-> IF is_time_sensitive THEN deadline_str ELSE NULL]>>
        /\ visited' = {start_node}
        /\ IF start_node = target_id
           THEN pc' = "done" /\ response' = Success(<<>>)
           ELSE pc' = "search" /\ UNCHANGED response
  /\ UNCHANGED <<schedule, request, previous, sql_errors, other, iterations>>

\* Handler entry: lines 462-468.
PlanMultiTransfer ==
  /\ pc = "idle"
  /\ endpoint = "plan_multi_transfer"
  /\ LET start_node ==
           IF is_time_sensitive THEN Strip(dest_stop_id) ELSE Strip(origin_stop_id)
     IN /\ queue' = <<[curr_id |-> start_node, path |-> <<>>,
                       constraint |-> IF is_time_sensitive THEN deadline_str ELSE NULL]>>
        /\ visited' = {start_node}
  /\ pc' = "search"
  /\ UNCHANGED <<schedule, request, response, previous, sql_errors, other,
                 iterations>>

\* One iteration of the while loop that pops an entry at the depth bound.
SkipDeep ==
  /\ pc = "search"
  /\ endpoint = "plan_multi_transfer"
  /\ queue # <<>>
  /\ Len(Head(queue).path) >= max_depth
  /\ queue' = Tail(queue)
  /\ iterations' = iterations + 1
  /\ UNCHANGED <<schedule, request, pc, visited, response, previous, sql_errors, other>>

\* One iteration of the while loop that queries the store and walks the rows.
Expand ==
  /\ pc = "search"
  /\ endpoint = "plan_multi_transfer"
  /\ queue # <<>>
  /\ Len(Head(queue).path) < max_depth
  /\ LET e == Head(queue)
         rowset == IF is_time_sensitive THEN BackwardRows(e.curr_id, e.constraint)
                   ELSE ForwardRows(e.curr_id)
     IN \E results \in FetchAll(rowset) :
          LET r == ForRows(results, 1, e.path, e.constraint, visited, Tail(queue))
          IN /\ visited' = r.visited
             /\ queue' = r.queue
             /\ IF r.returned
                THEN pc' = "done" /\ response' = Success(r.path)
                ELSE UNCHANGED <<pc, response>>
  /\ iterations' = iterations + 1
  /\ UNCHANGED <<schedule, request, previous, sql_errors, other>>

\* One iteration of the while loop whose query raises: except Exception:
\* print(...); continue -- the entry is dropped and the loop goes on.
MaxSqlErrors == 1

QueryFails ==
  /\ pc = "search"
  /\ endpoint = "plan_multi_transfer"
  /\ queue # <<>>
  /\ Len(Head(queue).path) < max_depth
  /\ sql_errors < MaxSqlErrors
  /\ queue' = Tail(queue)
  /\ sql_errors' = sql_errors + 1
  /\ iterations' = iterations + 1
  /\ UNCHANGED <<schedule, request, pc, visited, response, previous, other>>

\* The queue is empty: raise HTTPException(404).
RaiseNotFound ==
  /\ pc = "search"
  /\ endpoint = "plan_multi_transfer"
  /\ queue = <<>>
  /\ pc' = "done"
  /\ response' = NotFound
  /\ UNCHANGED <<schedule, request, queue, visited, previous, sql_errors, other,
                 iterations>>

\* ------------------------------------------------------------------------
\* plan_trip: direct and loop connections
\* ------------------------------------------------------------------------

\* The rows of plan_trip's query: every pair of visits of one trip, the
\* first at the origin stop and the second at the destination stop (ids
\* compared trimmed).
TripRows(origin, dest) ==
  {[trip_id |-> x[1].trip_id,
    route_short_name |-> RouteShortName(x[1].trip_id),
    origin_seq |-> x[1].stop_sequence, dest_seq |-> x[2].stop_sequence,
    departure_time |-> x[1].departure_time,
    arrival_time |-> x[2].arrival_time] :
   x \in {y \in stop_times \X stop_times :
            /\ y[1].trip_id = y[2].trip_id
            /\ SqlTrim(y[1].stop_id) = SqlTrim(origin)
            /\ SqlTrim(y[2].stop_id) = SqlTrim(dest)}}

\* ORDER BY st1.departure_time ASC (NULLs last), ties in any order.
RECURSIVE TripFetchAll(_)
TripFetchAll(S) ==
  IF S = {} THEN {<<>>}
  ELSE UNION {{<<r>> \o t : t \in TripFetchAll(S \ {r})} :
              r \in {m \in S : \A o \in S :
                       \/ o.departure_time = NULL
                       \/ /\ m.departure_time # NULL
                          /\ TextLE(m.departure_time, o.departure_time)}}

NextLoopSuffix == <<" ", "(", "N", "e", "x", "t", " ", "L", "o", "o", "p", ")">>

\* The classification with the test origin_seq <= dest_seq.
TripLegAtOrBefore(r) ==
  IF r.origin_seq <= r.dest_seq
  THEN [route |-> r.route_short_name, type |-> "Direct",
        leave |-> Strip(r.departure_time), arrive |-> Strip(r.arrival_time),
        trip_id |-> r.trip_id]
  ELSE [route |-> r.route_short_name, type |-> "Loop (Stay on board)",
        leave |-> Strip(r.departure_time),
        arrive |-> Strip(r.arrival_time) \o NextLoopSuffix,
        trip_id |-> r.trip_id]

TripLeg(r) ==
  IF r.origin_seq < r.dest_seq
  THEN [route |-> r.route_short_name, type |-> "Direct",
        leave |-> Strip(r.departure_time), arrive |-> Strip(r.arrival_time),
        trip_id |-> r.trip_id]
  ELSE [route |-> r.route_short_name, type |-> "Loop (Stay on board)",
        leave |-> Strip(r.departure_time),
        arrive |-> Strip(r.arrival_time) \o NextLoopSuffix,
        trip_id |-> r.trip_id]

\* itinerary[:5]
FirstFive(itinerary) == SubSeq(itinerary, 1, IF Len(itinerary) < 5 THEN Len(itinerary) ELSE 5)

\* The whole handler.  None.strip() on a NULL time raises AttributeError,
\* which the framework answers with status 500.
PlanTrip ==
  /\ pc = "idle"
  /\ endpoint = "plan_trip"
  /\ \E results \in TripFetchAll(TripRows(origin_stop_id, dest_stop_id)) :
       response' =
         IF results = <<>>
         THEN [status |-> "ok", message |-> "No routes found between these stops."]
         ELSE IF \E i \in 1..Len(results) :
                   results[i].departure_time = NULL \/ results[i].arrival_time = NULL
         THEN [status |-> "error", code |-> 500]
         ELSE [status |-> "ok",
               itinerary |-> FirstFive([i \in 1..Len(results) |-> TripLeg(results[i])])]
  /\ pc' = "done"
  /\ UNCHANGED <<schedule, request, queue, visited, previous, sql_errors, other,
                 iterations>>

\* ------------------------------------------------------------------------
\* plan_trip_by_coords: nearest stops, the same search, a readable itinerary
\* ------------------------------------------------------------------------

\* ORDER BY walk_dist ASC LIMIT 1: a stop at the least distance (any of
\* them when several are equally near); NULL distances sort last, so a stop
\* without a position is the first row only when no stop has one.
NearestStops(p) ==
  IF Placed(stops) = {} THEN stops
  ELSE {s \in Placed(stops) : \A o \in Placed(stops) :
          ST_Distance(p, s.pos) <= ST_Distance(p, o.pos)}

\* round(None) raises TypeError, which the framework answers with 500.
RoundFailed == [status |-> "error", code |-> 500]

NoStops ==
  [status |-> "error", code |-> 404,
   detail |-> "No transit stops found near these coordinates."]

NotFoundCoords ==
  [status |-> "error", code |-> 404,
   detail |-> "No route found between these coordinates."]

\* The Walk step with the walk to the first bus left out of the first step.
WalkStepUnmerged(new_path, i) ==
  LET step == new_path[i]
      total == IF i = 1 THEN orig_walk_meters ELSE step.walk_meters
  IN IF total > 0
     THEN <<[action |-> "Walk", destination |-> step.from,
             distance_meters |-> total]>>
     ELSE <<>>

\* The Walk step of the first leg only.
WalkStepFirstOnly(new_path, i) ==
  LET step == new_path[i]
      total == IF i = 1 THEN orig_walk_meters + step.walk_meters ELSE 0
  IN IF total > 0
     THEN <<[action |-> "Walk", destination |-> step.from,
             distance_meters |-> total]>>
     ELSE <<>>

\* The Walk step before the ride of new_path[i], if any.
WalkStep(new_path, i) ==
  LET step == new_path[i]
      total == IF i = 1 THEN orig_walk_meters + step.walk_meters
               ELSE step.walk_meters
  IN IF total > 0
     THEN <<[action |-> "Walk", destination |-> step.from,
             distance_meters |-> total]>>
     ELSE <<>>

RideStep(step) ==
  IF is_time_sensitive
  THEN [action |-> "Ride Bus", route |-> step.route, from |-> step.from,
        to |-> step.to, departure |-> step.departure, arrival |-> step.arrival]
  ELSE [action |-> "Ride Bus", route |-> step.route, from |-> step.from,
        to |-> step.to]

\* for i, step in enumerate(new_path): ... and the final walk.
RECURSIVE ReadableFrom(_, _)
ReadableFrom(new_path, i) ==
  IF i > Len(new_path)
  THEN IF dest_walk_meters > 0
       THEN <<[action |-> "Walk", destination |-> "Final Destination",
               distance_meters |-> dest_walk_meters]>>
       ELSE <<>>
  ELSE WalkStep(new_path, i) \o <<RideStep(new_path[i])>>
         \o ReadableFrom(new_path, i + 1)

SuccessCoords(new_path) ==
  [status |-> "success",
   mode |-> IF is_time_sensitive THEN "time-constrained" ELSE "generic",
   itinerary |-> ReadableFrom(new_path, 1),
   legs |-> new_path]    \* the leg list behind the itinerary (not sent)

\* Handler entry: the two nearest stops and the search set-up.
PlanTripByCoords ==
  /\ pc = "idle"
  /\ endpoint = "plan_trip_by_coords"
  /\ IF stops = {}
     THEN /\ pc' = "done"
          /\ response' = NoStops
          /\ UNCHANGED <<origin_stop_id, dest_stop_id, orig_walk_meters,
                         dest_walk_meters, queue, visited>>
     ELSE IF Placed(stops) = {}
     THEN /\ pc' = "done"
          /\ response' = RoundFailed
          /\ UNCHANGED <<origin_stop_id, dest_stop_id, orig_walk_meters,
                         dest_walk_meters, queue, visited>>
     ELSE \E o \in NearestStops(origin_pos), d \in NearestStops(dest_pos) :
            LET start_node ==
                  IF is_time_sensitive THEN Strip(d.stop_id) ELSE Strip(o.stop_id)
            IN /\ origin_stop_id' = Strip(o.stop_id)
               /\ dest_stop_id' = Strip(d.stop_id)
               /\ orig_walk_meters' = PyRound(ST_Distance(origin_pos, o.pos))
               /\ dest_walk_meters' = PyRound(ST_Distance(dest_pos, d.pos))
               /\ queue' = <<[curr_id |-> start_node, path |-> <<>>,
                              constraint |-> IF is_time_sensitive THEN deadline_str
                                             ELSE NULL]>>
               /\ visited' = {start_node}
               /\ pc' = "search"
               /\ UNCHANGED response
  /\ UNCHANGED <<schedule, endpoint, arrive_by, origin_pos, dest_pos, previous, sql_errors, other,
                 iterations>>

\* One iteration of the while loop that pops an entry at the depth bound.
SkipDeepCoords ==
  /\ pc = "search"
  /\ endpoint = "plan_trip_by_coords"
  /\ queue # <<>>
  /\ Len(Head(queue).path) >= max_depth
  /\ queue' = Tail(queue)
  /\ iterations' = iterations + 1
  /\ UNCHANGED <<schedule, request, pc, visited, response, previous, sql_errors, other>>

\* One iteration of the while loop that queries the store and walks the rows.
ExpandCoords ==
  /\ pc = "search"
  /\ endpoint = "plan_trip_by_coords"
  /\ queue # <<>>
  /\ Len(Head(queue).path) < max_depth
  /\ LET e == Head(queue)
         rowset == IF is_time_sensitive THEN BackwardRows(e.curr_id, e.constraint)
                   ELSE ForwardRows(e.curr_id)
     IN \E results \in FetchAll(rowset) :
          LET r == ForRows(results, 1, e.path, e.constraint, visited, Tail(queue))
          IN /\ visited' = r.visited
             /\ queue' = r.queue
             /\ IF r.returned
                THEN pc' = "done" /\ response' = SuccessCoords(r.path)
                ELSE UNCHANGED <<pc, response>>
  /\ iterations' = iterations + 1
  /\ UNCHANGED <<schedule, request, previous, sql_errors, other>>

\* One iteration of the while loop whose query raises: except Exception:
\* continue.
QueryFailsCoords ==
  /\ pc = "search"
  /\ endpoint = "plan_trip_by_coords"
  /\ queue # <<>>
  /\ Len(Head(queue).path) < max_depth
  /\ sql_errors < MaxSqlErrors
  /\ queue' = Tail(queue)
  /\ sql_errors' = sql_errors + 1
  /\ iterations' = iterations + 1
  /\ UNCHANGED <<schedule, request, pc, visited, response, previous, other>>

\* The queue is empty: raise HTTPException(404).
RaiseNotFoundCoords ==
  /\ pc = "search"
  /\ endpoint = "plan_trip_by_coords"
  /\ queue = <<>>
  /\ pc' = "done"
  /\ response' = NotFoundCoords
  /\ UNCHANGED <<schedule, request, queue, visited, previous, sql_errors, other,
                 iterations>>

\* ------------------------------------------------------------------------
\* Schedules and requests the model is run on
\* ------------------------------------------------------------------------

\* A well-formed zero-padded time text HH:MM:SS.
HMS(h, m, sec) == Fmt02d(h) \o <<":">> \o Fmt02d(m) \o <<":">> \o Fmt02d(sec)

\* The time text H:MM:SS of a feed that does not pad the hour.
HMSBare(h, m, sec) == NatToText(h) \o <<":">> \o Fmt02d(m) \o <<":">> \o Fmt02d(sec)

\* The id text of stop number n as the store holds it: ingestion left a
\* trailing space on the ids of the stops in padded.
StoredId(n, padded) ==
  IF n \in padded THEN <<DigitChar(n), " ">> ELSE <<DigitChar(n)>>

StopName(n) ==
  CASE n = 1 -> "Aldrich" [] n = 2 -> "Bison" [] n = 3 -> "Campus"
    [] n = 4 -> "" [] OTHER -> "East"

\* Stops lie on a straight road; a position is a distance along it in
\* units of 1/WalkUnit metre (stop_lat, stop_lon).  Stop n lies n times Far
\* along the road, except that the second stop of a pair in near lies dist
\* beyond the first.
Far == 1000 * WalkUnit

Place(n, near, dist) ==
  IF \E p \in near : p[2] = n
  THEN (CHOOSE p \in near : p[2] = n)[1] * Far + dist
  ELSE n * Far

StopsTable(n_stops, padded, near, dist) ==
  {[stop_id |-> StoredId(n, padded), stop_name |-> StopName(n),
    pos |-> Place(n, near, dist)] : n \in 1..n_stops}

\* The radius (metres) within which build_indexes joins two stops.
TransferRadius == 300

Visit(trip, n, seq, arr, dep, padded) ==
  [trip_id |-> trip, stop_id |-> StoredId(n, padded), arrival_time |-> arr,
   departure_time |-> dep, stop_sequence |-> seq]

\* build_indexes: a row for every ordered pair of stops within the radius
\* of each other, a stop and itself included (distance 0).
TransfersTable(S) ==
  {[from_stop_id |-> x[1].stop_id, to_stop_id |-> x[2].stop_id,
    walk_meters |-> ST_Distance(x[1].pos, x[2].pos)] :
   x \in {y \in Placed(S) \X Placed(S) :
            ST_Distance(y[1].pos, y[2].pos) <= TransferRadius * WalkUnit}}

\* --- The line: stops 1..LineStops, trip <<"L", k>> rides from stop k to
\* stop k+1, each trip later than the one before; any subset of the trips
\* runs, and stops 3 and 4 may be within walking distance.
LineStops == 6

LineWalk == 120 * WalkUnit + 1

LineTrip(k) ==
  {Visit(<<"L", k>>, k, 1, HMS(8, 5 * k, 0), HMS(8, 5 * k, 0), {}),
   Visit(<<"L", k>>, k + 1, 2, HMS(8, 5 * k + 3, 0), HMS(8, 5 * k + 3, 0), {})}

InitLine ==
  /\ \E near \in {{}, {<<3, 4>>}} : stops = StopsTable(LineStops, {}, near, LineWalk)
  /\ \E running \in SUBSET (1..(LineStops - 1)) :
       stop_times = UNION {LineTrip(k) : k \in running}
  /\ transfers = TransfersTable(stops)
  /\ endpoint = "plan_multi_transfer"
  /\ origin_stop_id \in {StoredId(n, {}) : n \in 1..LineStops}
  /\ dest_stop_id \in {StoredId(n, {}) : n \in 1..LineStops}
  /\ arrive_by \in {NULL, HMS(9, 0, 0)}

\* --- The triangle: three stops; trip T1 rides 1 -> 2 and may loop back to
\* 1, trip T2 rides 2 -> 3, trip T3 rides 1 -> 2 -> 3 leaving and arriving
\* when T1 and T2 do; stops 2 and 3 may be within walking distance; the id
\* of stop 2 may be stored padded.
TriStops == 3

TriWalk == 100 * WalkUnit + 1

TriT1(shape, padded) ==
  CASE shape = 0 -> {}
    [] shape = 1 ->
         {Visit(<<"T", 1>>, 1, 1, HMS(8, 0, 0), HMS(8, 0, 0), padded),
          Visit(<<"T", 1>>, 2, 2, HMS(8, 30, 0), HMS(8, 30, 0), padded)}
    [] shape = 2 ->
         {Visit(<<"T", 1>>, 1, 1, HMS(8, 0, 0), HMS(8, 0, 0), padded),
          Visit(<<"T", 1>>, 2, 2, HMS(8, 30, 0), HMS(8, 30, 0), padded),
          Visit(<<"T", 1>>, 1, 3, HMS(8, 50, 0), HMS(8, 50, 0), padded)}

TriT2(padded) ==
  {Visit(<<"T", 2>>, 2, 1, HMS(8, 40, 0), HMS(8, 40, 0), padded),
   Visit(<<"T", 2>>, 3, 2, HMS(8, 50, 0), HMS(8, 50, 0), padded)}

TriT3(padded) ==
  {Visit(<<"T", 3>>, 1, 1, HMS(8, 0, 0), HMS(8, 0, 0), padded),
   Visit(<<"T", 3>>, 2, 2, HMS(8, 30, 0), HMS(8, 40, 0), padded),
   Visit(<<"T", 3>>, 3, 3, HMS(8, 50, 0), HMS(8, 50, 0), padded)}

InitTriangle ==
  \E padded \in {{}, {2}} :
    /\ \E near \in {{}, {<<2, 3>>}} : stops = StopsTable(TriStops, padded, near, TriWalk)
    /\ \E shape \in 0..2, t2 \in SUBSET {2}, t3 \in SUBSET {3} :
         stop_times = TriT1(shape, padded)
                      \cup (IF 2 \in t2 THEN TriT2(padded) ELSE {})
                      \cup (IF 3 \in t3 THEN TriT3(padded) ELSE {})
    /\ transfers = TransfersTable(stops)
    /\ origin_stop_id \in {StoredId(n, {}) : n \in 1..TriStops}
    /\ dest_stop_id \in {StoredId(n, {}) : n \in 1..TriStops}
    /\ \/ endpoint = "plan_multi_transfer"
          /\ arrive_by \in {NULL, HMS(8, 31, 0), HMS(9, 0, 0)}
       \/ endpoint = "plan_trip" /\ arrive_by = NULL

\* --- Odd times: trip T1 rides 1 -> 2 with the departure and the arrival
\* text drawn from what a feed may hold (zero-padded, after midnight, hours
\* without padding, surrounded by spaces, not a time, missing); trip T2
\* rides 2 -> 3, in a feed that does not pad hours or in one that does;
\* arrive_by in every shape parse_time_str tells apart.
OddDepartures == {HMS(23, 40, 0), NULL, <<" ">> \o HMS(8, 0, 0), <<"8", ":", "0", "0", ":", "0", "0">>}

OddArrivals ==
  {HMS(23, 50, 0), HMS(24, 10, 0), <<"0", "9", ":", "9", "9", ":", "0", "0">>, NULL, HMS(8, 30, 0) \o <<" ">>, <<"9", ":", "0", "5", ":", "0", "0">>}

OddArriveBy ==
  {NULL, <<>>, <<"1", "x">>, <<"1", "0">>, <<"1", "0", ":", "1", "0">>, HMS(24, 30, 0), <<"9", ":", "x">>,
   <<" ">> \o HMS(10, 10, 0) \o <<" ">>}

OddT2 ==
  {Visit(<<"T", 2>>, 2, 1, <<"9", ":", "1", "0", ":", "0", "0">>, <<"9", ":", "1", "0", ":", "0", "0">>, {}),
   Visit(<<"T", 2>>, 3, 2, <<"9", ":", "3", "0", ":", "0", "0">>, <<"9", ":", "3", "0", ":", "0", "0">>, {})}

\* Trip T2 of a feed that pads hours, leaving stop 2 at 10:00.
OddT2Padded ==
  {Visit(<<"T", 2>>, 2, 1, HMS(10, 0, 0), HMS(10, 0, 0), {}),
   Visit(<<"T", 2>>, 3, 2, HMS(10, 5, 0), HMS(10, 5, 0), {})}

InitOdd ==
  /\ stops = StopsTable(TriStops, {}, {}, 0)
  /\ \E dep \in OddDepartures, arr \in OddArrivals, t2 \in {{}, OddT2, OddT2Padded} :
       stop_times = {Visit(<<"T", 1>>, 1, 1, dep, dep, {}),
                     Visit(<<"T", 1>>, 2, 2, arr, arr, {})}
                    \cup t2
  /\ transfers = TransfersTable(stops)
  /\ \/ /\ endpoint = "plan_multi_transfer"
        /\ origin_stop_id = StoredId(1, {})
        /\ dest_stop_id \in {StoredId(2, {}), StoredId(3, {})}
        /\ arrive_by \in OddArriveBy
     \/ /\ endpoint = "plan_trip"
        /\ \E od \in {<<1, 2>>, <<2, 1>>} :
             /\ origin_stop_id = StoredId(od[1], {})
             /\ dest_stop_id = StoredId(od[2], {})
        /\ arrive_by = NULL

\* --- Many direct trips: a feed that does not pad hours; trips <<"P", k>>,
\* k in 1..ManyTrips, ride 1 -> 2, trip 1 leaving at 10, trip 2 at 9, the
\* others after 8, two of them at the same time; any subset of them runs.
ManyTrips == 6

ManyDeparture(k) ==
  CASE k = 1 -> HMSBare(10, 0, 0)
    [] k = 2 -> HMSBare(9, 0, 0)
    [] k = 3 -> HMSBare(8, 10, 0)
    [] k = 4 -> HMSBare(8, 10, 0)
    [] OTHER -> HMSBare(8, 5 * k, 0)

ManyTrip(k) ==
  {Visit(<<"P", k>>, 1, 1, ManyDeparture(k), ManyDeparture(k), {}),
   Visit(<<"P", k>>, 2, 2, HMSBare(11, k, 0), HMSBare(11, k, 0), {})}

InitMany ==
  /\ stops = StopsTable(TriStops, {}, {}, 0)
  /\ \E running \in SUBSET (1..ManyTrips) :
       stop_times = UNION {ManyTrip(k) : k \in running}
  /\ transfers = TransfersTable(stops)
  /\ endpoint = "plan_trip"
  /\ origin_stop_id \in {StoredId(1, {}), StoredId(2, {})}
  /\ dest_stop_id \in {StoredId(1, {}), StoredId(2, {})}
  /\ arrive_by = NULL

\* --- Service past midnight: trip N1 rides 1 -> 2 leaving at 23:40 and
\* arriving before or after midnight (hours of 24 and more, as GTFS writes
\* them), trip N2 rides 2 -> 3 after midnight; deadlines before and after
\* midnight.
NightArrivals == {HMS(23, 50, 0), HMS(24, 10, 0)}

NightArriveBy == {NULL, HMS(23, 55, 0), HMS(24, 30, 0), HMS(25, 0, 0)}

InitNight ==
  /\ stops = StopsTable(TriStops, {}, {}, 0)
  /\ \E arr \in NightArrivals, n2 \in BOOLEAN :
       stop_times =
         {Visit(<<"N", 1>>, 1, 1, HMS(23, 40, 0), HMS(23, 40, 0), {}),
          Visit(<<"N", 1>>, 2, 2, arr, arr, {})}
         \cup (IF n2 THEN {Visit(<<"N", 2>>, 2, 1, HMS(24, 20, 0), HMS(24, 20, 0), {}),
                           Visit(<<"N", 2>>, 3, 2, HMS(24, 40, 0), HMS(24, 40, 0), {})}
               ELSE {})
  /\ transfers = TransfersTable(stops)
  /\ endpoint = "plan_multi_transfer"
  /\ origin_stop_id \in {StoredId(1, {}), StoredId(2, {})}
  /\ dest_stop_id \in {StoredId(2, {}), StoredId(3, {})}
  /\ arrive_by \in NightArriveBy

\* --- The detour: stops 1..DetourStops; trips D1 (1 -> 2) and D2 (2 -> 4)
\* lead to stop 4 in two legs, trips D0 (1 -> 3), D3 (3 -> 5) and D4
\* (5 -> 4) in three; any of D2 and D4 may not run, and the id of stop 2
\* may be stored padded.
DetourStops == 5

DetourTrip(k, from, to, padded) ==
  {Visit(<<"D", k>>, from, 1, HMS(8, 10 * k, 0), HMS(8, 10 * k, 0), padded),
   Visit(<<"D", k>>, to, 2, HMS(8, 10 * k + 5, 0), HMS(8, 10 * k + 5, 0), padded)}

InitDetour ==
  /\ \E padded \in {{}, {2}} :
       /\ stops = StopsTable(DetourStops, padded, {}, 0)
       /\ \E d2 \in BOOLEAN, d4 \in BOOLEAN :
            stop_times =
              DetourTrip(1, 1, 2, padded) \cup DetourTrip(3, 3, 5, padded)
              \cup DetourTrip(0, 1, 3, padded)
              \cup (IF d2 THEN DetourTrip(2, 2, 4, padded) ELSE {})
              \cup (IF d4 THEN DetourTrip(4, 5, 4, padded) ELSE {})
  /\ transfers = TransfersTable(stops)
  /\ endpoint = "plan_multi_transfer"
  /\ origin_stop_id = StoredId(1, {})
  /\ dest_stop_id = StoredId(4, {})
  /\ arrive_by \in {NULL, HMS(9, 0, 0)}

\* Stops loaded without coordinates.
UnplacedStops(n_stops) ==
  {[stop_id |-> StoredId(n, {}), stop_name |-> StopName(n), pos |-> NoPosition] :
   n \in 1..n_stops}

\* --- Coordinates on the line: the request names two places, each at a
\* stop, CoordOffset beyond one, or midway between stops 1 and 2; or the
\* store holds no stop at all, or only stops without coordinates.
CoordOffset == 40 * WalkUnit + 1

PosOfStop(n) == (CHOOSE st \in stops : Strip(st.stop_id) = <<DigitChar(n)>>).pos

InitCoords ==
  /\ endpoint = "plan_trip_by_coords"
  /\ origin_stop_id = NULL
  /\ dest_stop_id = NULL
  /\ arrive_by \in {NULL, HMS(9, 0, 0)}
  /\ \/ /\ \E near \in {{}, {<<3, 4>>}} :
             stops = StopsTable(LineStops, {}, near, LineWalk)
        /\ \E running \in SUBSET (1..(LineStops - 1)) :
             stop_times = UNION {LineTrip(k) : k \in running}
        /\ transfers = TransfersTable(stops)
        /\ origin_pos \in {PosOfStop(1), PosOfStop(1) + CoordOffset, PosOfStop(3),
                           (PosOfStop(1) + PosOfStop(2)) \div 2}
        /\ dest_pos \in {PosOfStop(2), PosOfStop(4), PosOfStop(5) + CoordOffset,
                         PosOfStop(6)}
     \/ /\ stops \in {{}, UnplacedStops(TriStops)}
        /\ stop_times = {}
        /\ transfers = TransfersTable(stops)
        /\ origin_pos = Far
        /\ dest_pos = Far + Far

\* The handlers that take stop ids get no coordinates.
NoCoords == origin_pos = 0 /\ dest_pos = 0

InitSearchState ==
  /\ orig_walk_meters = 0
  /\ dest_walk_meters = 0
  /\ pc = "idle"
  /\ queue = <<>>
  /\ visited = {}
  /\ response = NULL
  /\ previous = <<>>
  /\ sql_errors = 0
  /\ iterations = 0
  /\ other = [pc |-> "idle", queue |-> <<>>, visited |-> {}, response |-> NULL]

Init ==
  /\ \/ (InitLine \/ InitTriangle \/ InitOdd \/ InitMany \/ InitNight \/ InitDetour)
        /\ NoCoords
     \/ InitCoords
  /\ InitSearchState

Next ==
  \/ PlanTrip
  \/ PlanMultiTransfer \/ SkipDeep \/ Expand \/ RaiseNotFound
  \/ PlanTripByCoords \/ SkipDeepCoords \/ ExpandCoords \/ RaiseNotFoundCoords

Spec == Init /\ [][Next]_vars

\* --- Running to the end: plan_multi_transfer on the detour, on the line
\* from stop 1 (to itself or to the last stop), and on the triangle from a
\* stop to itself.
InitLive ==
  /\ \/ InitDetour
     \/ InitLine /\ origin_stop_id = StoredId(1, {})
                 /\ dest_stop_id \in {StoredId(1, {}), StoredId(LineStops, {})}
     \/ InitTriangle /\ origin_stop_id = dest_stop_id
  /\ endpoint = "plan_multi_transfer"
  /\ NoCoords
  /\ InitSearchState

NextLive == PlanMultiTransfer \/ SkipDeep \/ Expand \/ RaiseNotFound

\* The steps of the call whose effect is costly to compute, as their guards
\* and the program counter or the iteration count show them.  Building the
\* first queue entry never fails, the query returns some list of rows and
\* the walk over them ends, so PlanMultiTransfer and Expand can be taken
\* exactly when these guards hold; a step of NextLive that satisfies Entered
\* is a PlanMultiTransfer step, one that satisfies LoopBody an Expand step.
Entered ==
  /\ pc = "idle"
  /\ endpoint = "plan_multi_transfer"
  /\ pc' = "search"

LoopBody ==
  /\ pc = "search"
  /\ endpoint = "plan_multi_transfer"
  /\ queue # <<>>
  /\ Len(Head(queue).path) < max_depth
  /\ iterations' = iterations + 1

\* A handler that has been called runs on until it answers: the server does
\* not abandon a request, and the store answers every query.  Each step of
\* the call that can be taken is eventually taken.
SpecLive ==
  /\ InitLive
  /\ [][NextLive]_vars
  /\ WF_pc(Entered)
  /\ WF_vars(SkipDeep)
  /\ WF_iterations(LoopBody)
  /\ WF_vars(RaiseNotFound)

\* What the client sees of a response: the legs without the stop ids, which
\* the handler does not put into its answer.
VisibleLeg(leg) ==
  IF "departure" \in DOMAIN leg
  THEN [route |-> leg.route, from |-> leg.from, to |-> leg.to,
        walk_meters |-> leg.walk_meters,
        departure |-> leg.departure, arrival |-> leg.arrival]
  ELSE [route |-> leg.route, from |-> leg.from, to |-> leg.to,
        walk_meters |-> leg.walk_meters]

Visible(resp) ==
  IF resp.status = "success"
  THEN [status |-> "success", mode |-> resp.mode,
        path |-> [i \in 1..Len(resp.path) |-> VisibleLeg(resp.path[i])]]
  ELSE resp

\* The client sends the same request a second time; the store is unchanged
\* (the handlers only read it), and the handler starts afresh.
Again ==
  /\ pc = "done"
  /\ endpoint = "plan_multi_transfer"
  /\ previous = <<>>
  /\ previous' = <<Visible(response)>>
  /\ sql_errors' = 0
  /\ pc' = "idle"
  /\ queue' = <<>>
  /\ visited' = {}
  /\ response' = NULL
  /\ iterations' = 0
  /\ UNCHANGED <<schedule, request, other>>

NextTwice == Next \/ Again

\* --- A second call of plan_multi_transfer, serving the same request on
\* another worker thread; queue and visited are locals of each call.

\* The visited set of the first call.
SharedVisited == visited

\* The visited set the second call reads.
OtherVisited == other.visited

StartEntry ==
  [curr_id |-> IF is_time_sensitive THEN Strip(dest_stop_id) ELSE Strip(origin_stop_id),
   path |-> <<>>,
   constraint |-> IF is_time_sensitive THEN deadline_str ELSE NULL]

OtherPlanMultiTransfer ==
  /\ other.pc = "idle"
  /\ endpoint = "plan_multi_transfer"
  /\ other' = [other EXCEPT !.pc = "search", !.queue = <<StartEntry>>,
                             !.visited = {StartEntry.curr_id}]
  /\ UNCHANGED <<schedule, request, pc, queue, visited, response, previous,
                 sql_errors, iterations>>

OtherSkipDeep ==
  /\ other.pc = "search"
  /\ other.queue # <<>>
  /\ Len(Head(other.queue).path) >= max_depth
  /\ other' = [other EXCEPT !.queue = Tail(other.queue)]
  /\ UNCHANGED <<schedule, request, pc, queue, visited, response, previous,
                 sql_errors, iterations>>

OtherExpand ==
  /\ other.pc = "search"
  /\ other.queue # <<>>
  /\ Len(Head(other.queue).path) < max_depth
  /\ LET e == Head(other.queue)
         rowset == IF is_time_sensitive THEN BackwardRows(e.curr_id, e.constraint)
                   ELSE ForwardRows(e.curr_id)
     IN \E results \in FetchAll(rowset) :
          LET r == ForRows(results, 1, e.path, e.constraint, OtherVisited,
                           Tail(other.queue))
          IN other' = IF r.returned
                      THEN [pc |-> "done", queue |-> r.queue, visited |-> r.visited,
                            response |-> Success(r.path)]
                      ELSE [other EXCEPT !.queue = r.queue, !.visited = r.visited]
  /\ UNCHANGED <<schedule, request, pc, queue, visited, response, previous,
                 sql_errors, iterations>>

OtherRaiseNotFound ==
  /\ other.pc = "search"
  /\ other.queue = <<>>
  /\ other' = [other EXCEPT !.pc = "done", !.response = NotFound]
  /\ UNCHANGED <<schedule, request, pc, queue, visited, response, previous,
                 sql_errors, iterations>>

\* The requests served twice at once: those of the triangle with the ids
\* stored as they are asked for, and the ride along the whole line with
\* every trip running.
InitConcurrent ==
  /\ \/ InitTriangle /\ \A st \in stops : st.stop_id = Strip(st.stop_id)
     \/ /\ InitLine
        /\ stop_times = UNION {LineTrip(k) : k \in 1..(LineStops - 1)}
        /\ origin_stop_id = StoredId(1, {})
        /\ dest_stop_id = StoredId(LineStops, {})
  /\ endpoint = "plan_multi_transfer"
  /\ NoCoords
  /\ InitSearchState

NextConcurrent ==
  \/ PlanMultiTransfer \/ SkipDeep \/ Expand \/ RaiseNotFound
  \/ OtherPlanMultiTransfer \/ OtherSkipDeep \/ OtherExpand \/ OtherRaiseNotFound

SpecConcurrent == InitConcurrent /\ [][NextConcurrent]_vars

\* The store may fail to answer a query of the search.
\* --- The two searches side by side: plan_trip_by_coords serves a request,
\* and plan_multi_transfer (held in other) is called with the two stops it
\* resolved and the same arrive_by, on the same store.
MultiOnResolved ==
  /\ endpoint = "plan_trip_by_coords"
  /\ pc = "search"
  /\ other.pc = "idle"
  /\ other' = [other EXCEPT !.pc = "search", !.queue = <<StartEntry>>,
                             !.visited = {StartEntry.curr_id}]
  /\ UNCHANGED <<schedule, request, pc, queue, visited, response, previous,
                 sql_errors, iterations>>

\* Places on the line with any subset of its trips running, and places at
\* the stops of the triangle.
InitBoth ==
  /\ endpoint = "plan_trip_by_coords"
  /\ origin_stop_id = NULL
  /\ dest_stop_id = NULL
  /\ arrive_by \in {NULL, HMS(9, 0, 0)}
  /\ \/ /\ stops = StopsTable(LineStops, {}, {<<3, 4>>}, LineWalk)
        /\ \E running \in SUBSET (1..(LineStops - 1)) :
             stop_times = UNION {LineTrip(k) : k \in running}
        /\ origin_pos \in {PosOfStop(1) + CoordOffset, (PosOfStop(1) + PosOfStop(2)) \div 2}
        /\ dest_pos \in {PosOfStop(4), PosOfStop(6)}
     \/ /\ \E padded \in {{}, {2}} :
             /\ \E near \in {{}, {<<2, 3>>}} :
                  stops = StopsTable(TriStops, padded, near, TriWalk)
             /\ \E shape \in 0..2, t2 \in BOOLEAN, t3 \in BOOLEAN :
                  stop_times = TriT1(shape, padded)
                               \cup (IF t2 THEN TriT2(padded) ELSE {})
                               \cup (IF t3 THEN TriT3(padded) ELSE {})
        /\ origin_pos \in {PosOfStop(1), PosOfStop(2)}
        /\ dest_pos \in {PosOfStop(2), PosOfStop(3) + CoordOffset}
  /\ transfers = TransfersTable(stops)
  /\ InitSearchState

NextBoth ==
  \/ PlanTripByCoords \/ SkipDeepCoords \/ ExpandCoords \/ RaiseNotFoundCoords
  \/ MultiOnResolved \/ OtherSkipDeep \/ OtherExpand \/ OtherRaiseNotFound

SpecBoth == InitBoth /\ [][NextBoth]_vars

NextFaulty == Next \/ QueryFails \/ QueryFailsCoords

SpecFaulty == Init /\ [][NextFaulty]_vars

SpecTwice == Init /\ [][NextTwice]_vars

\* ------------------------------------------------------------------------
\* Properties
\* ------------------------------------------------------------------------

Done == pc = "done"

MultiDone == Done /\ endpoint = "plan_multi_transfer"

Succeeded == MultiDone /\ response.status = "success"

Failed404 == MultiDone /\ response = NotFound

CoordsSucceeded ==
  Done /\ endpoint = "plan_trip_by_coords" /\ response.status = "success"

\* The positions of the Ride Bus steps of a readable itinerary.
RideSteps(itinerary) ==
  {i \in 1..Len(itinerary) : itinerary[i].action = "Ride Bus"}

\* C1: an itinerary returned by plan_multi_transfer has at most 4 ride legs
\* and one returned by plan_trip_by_coords at most 4 Ride Bus steps, with or
\* without a deadline; no path held in the queue is longer; and a loop
\* iteration that pops an entry whose path has 4 legs only discards it
\* (nothing is visited, enqueued or returned).
C1_AtMostFourLegs ==
  /\ [](Succeeded => Len(response.path) <= 4)
  /\ [](CoordsSucceeded => Cardinality(RideSteps(response.itinerary)) <= 4)
  /\ [](\A i \in 1..Len(queue) : Len(queue[i].path) <= 4)
  /\ [][(pc = "search" /\ queue # <<>> /\ Len(Head(queue).path) >= 4)
          => (queue' = Tail(queue) /\ visited' = visited /\ pc' = pc
              /\ response' = response)]_vars

\* A returned itinerary at the bound, found against a deadline.
C1_Witness ==
  Succeeded /\ Len(response.path) = 4 /\ response.mode = "time-constrained"

\* Stops joined to a stop of S by a transfer edge in either direction (ids
\* trimmed), S included.
Near(S) ==
  S \cup {Strip(tr.to_stop_id) : tr \in {t \in transfers : Strip(t.from_stop_id) \in S}}
    \cup {Strip(tr.from_stop_id) : tr \in {t \in transfers : Strip(t.to_stop_id) \in S}}

\* Stops some trip reaches at a later sequence number from a stop of S.
RideFrom(S) ==
  {Strip(x[2].stop_id) : x \in {y \in stop_times \X stop_times :
      /\ y[1].trip_id = y[2].trip_id
      /\ y[1].stop_sequence < y[2].stop_sequence
      /\ Strip(y[1].stop_id) \in S}}

\* Stops at which a chain of exactly k ride legs from the origin can end,
\* walking allowed before every leg.
RECURSIVE AlightAfter(_)
AlightAfter(k) ==
  IF k = 0 THEN {Strip(origin_stop_id)} ELSE RideFrom(Near(AlightAfter(k - 1)))

\* Some chain of k ride legs connects the origin to the destination.
ChainOf(k) == Strip(dest_stop_id) \in Near(AlightAfter(k))

\* C3: when every chain of ride legs from the origin to the destination has
\* five or more legs, the search ends with 404 "No route found.".
C3_NotFoundBeyondBound ==
  (MultiDone /\ \A k \in 1..4 : ~ChainOf(k)) => response = NotFound

\* A search that failed although a chain of five legs exists, in each mode.
C3_Witness ==
  /\ Failed404 /\ ChainOf(5) /\ \A k \in 1..4 : ~ChainOf(k)
  /\ is_time_sensitive

\* A schedule time as GTFS writes it: H:MM:SS or HH:MM:SS after trimming,
\* the hour any natural number (24 and more for service after midnight),
\* minutes and seconds below 60.
WellFormedTime(t) ==
  /\ t # NULL
  /\ LET f == Split(Strip(t))
     IN /\ Len(f) = 3
        /\ \A i \in 1..3 : PyInt(f[i]) >= 0 /\ f[i] = Strip(f[i])
        /\ PyInt(f[2]) <= 59
        /\ PyInt(f[3]) <= 59

\* Seconds since the start of the service day of a well-formed time.
GtfsSeconds(t) ==
  LET f == Split(Strip(t))
  IN PyInt(f[1]) * 3600 + PyInt(f[2]) * 60 + PyInt(f[3])

\* The time leg i of a deadline-mode path has to meet: the departure of the
\* leg after it, or the deadline for the last leg.
LimitOf(path, i) ==
  IF i = Len(path) THEN deadline_str ELSE path[i + 1].departure

\* The distance (in units of 1/WalkUnit metre) between the stop where leg i
\* alights and the stop where the next leg boards (the destination for the
\* last leg).
WalkAfter(path, i) ==
  LET a == path[i].alight_id
      b == IF i = Len(path) THEN Strip(dest_stop_id) ELSE path[i + 1].board_id
  IN CHOOSE d \in {t.walk_meters : t \in {u \in transfers :
                      Strip(u.from_stop_id) = b /\ Strip(u.to_stop_id) = a}} : TRUE

TimedSuccess == Succeeded /\ response.mode = "time-constrained"

\* C2: every leg of an itinerary found against a deadline arrives, with the
\* walk to the next boarding stop at 1 m/s added, no later than the deadline
\* (last leg) or the departure of the leg after it.
C2_ArrivalPlusWalkMeetsConstraint ==
  TimedSuccess =>
    \A i \in 1..Len(response.path) :
      /\ WellFormedTime(response.path[i].arrival)
      /\ WellFormedTime(LimitOf(response.path, i))
      /\ GtfsSeconds(response.path[i].arrival) * WalkUnit + WalkAfter(response.path, i)
           <= GtfsSeconds(LimitOf(response.path, i)) * WalkUnit

\* C4: in a returned itinerary no leg alights at the stop where it boards.
C4_BoardDiffersFromAlight ==
  Succeeded =>
    \A i \in 1..Len(response.path) :
      response.path[i].board_id # response.path[i].alight_id

\* Some trip rides from the origin to the destination (origin at the lower
\* sequence number), both times well formed, and reaches the destination no
\* later than the deadline.
DirectTripInTime ==
  /\ WellFormedTime(deadline_str)
  /\ \E st1 \in stop_times, st2 \in stop_times :
       /\ st1.trip_id = st2.trip_id
       /\ st1.stop_id = origin_stop_id
       /\ st2.stop_id = dest_stop_id
       /\ st1.stop_sequence < st2.stop_sequence
       /\ WellFormedTime(st1.departure_time)
       /\ WellFormedTime(st2.arrival_time)
       /\ GtfsSeconds(st2.arrival_time) <= GtfsSeconds(deadline_str)

\* C8: when a trip rides from the origin to the destination and arrives no
\* later than arrive_by, the search with that arrive_by succeeds in deadline
\* mode with an itinerary of exactly one leg.
C8_DirectTripSucceedsWithOneLeg ==
  (MultiDone /\ arrive_by # NULL /\ DirectTripInTime) =>
    /\ TimedSuccess
    /\ Len(response.path) = 1

InvalidInput(resp) ==
  resp.status = "error" /\ resp.code \in {400, 422}

\* C9: when arrive_by is supplied (a non-empty text) and is not a time of
\* day, the query ends with an InvalidInput error (no itinerary, no plain
\* NotFound).
C9_UnparseableDeadlineAborts ==
  (MultiDone /\ Truthy(arrive_by) /\ parse_time_str(arrive_by) = NULL) =>
    InvalidInput(response)

\* The legs of deadline-mode paths, returned or waiting in the queue.
TimedLegsInPaths ==
  {queue[i].path[j] : <<i, j>> \in
     {x \in (1..Len(queue)) \X (1..max_depth) : x[2] <= Len(queue[x[1]].path)}}
  \cup (IF pc = "done" /\ response.status = "success"
        THEN {response.path[j] : j \in 1..Len(response.path)} ELSE {})

\* C10: no path, returned or enqueued, holds a leg whose departure or
\* arrival time is missing or malformed.
C10_MalformedLegsSkipped ==
  (endpoint = "plan_multi_transfer" /\ is_time_sensitive) =>
    \A leg \in TimedLegsInPaths :
      WellFormedTime(leg.departure) /\ WellFormedTime(leg.arrival)

\* C5: a second run of the same request on the unchanged schedule answers
\* as the first run did (the same itinerary or the same failure).
C5_SecondRunAnswersTheSame ==
  (MultiDone /\ previous # <<>>) => Visible(response) = previous[1]

\* plan_trip answered with an itinerary.
TripReturned ==
  /\ Done /\ endpoint = "plan_trip"
  /\ response.status = "ok"
  /\ "itinerary" \in DOMAIN response

\* The (origin visit, destination visit) pairs of a common trip.
Pairs == TripRows(origin_stop_id, dest_stop_id)

\* A time as a leg records it: as stored, or with the surrounding
\* whitespace removed.
Recorded(t, stripped) == IF stripped THEN Strip(t) ELSE t

\* leg is the leg of pair r: Direct with the pair's two times when the
\* origin sequence number is the lower one, otherwise a Loop whose arrival
\* carries the next-lap note.
IsLegOf(leg, r, stripped) ==
  /\ leg.trip_id = r.trip_id
  /\ leg.route = r.route_short_name
  /\ leg.leave = Recorded(r.departure_time, stripped)
  /\ IF r.origin_seq < r.dest_seq
     THEN leg.type = "Direct" /\ leg.arrive = Recorded(r.arrival_time, stripped)
     ELSE /\ leg.type = "Loop (Stay on board)"
          /\ leg.arrive = Recorded(r.arrival_time, stripped) \o NextLoopSuffix

\* Every returned leg is the leg of a pair, and when at most five pairs
\* exist every pair has its leg.
Classified(stripped) ==
  TripReturned =>
    /\ \A i \in 1..Len(response.itinerary) :
         \E r \in Pairs : IsLegOf(response.itinerary[i], r, stripped)
    /\ Cardinality(Pairs) <= 5 =>
         \A r \in Pairs : \E i \in 1..Len(response.itinerary) :
           IsLegOf(response.itinerary[i], r, stripped)

\* C6 as stated: each pair is Direct exactly when the origin sequence
\* number is below the destination's, with the two times verbatim, and a
\* Loop with the next-lap note otherwise.
C6_ClassifiedVerbatim == Classified(FALSE)

\* C6 amended: the same classification, the times recorded with their
\* surrounding whitespace removed.
C6_ClassifiedStripped == Classified(TRUE)

\* An itinerary holding a Direct leg and a Loop leg.
C6_Witness ==
  /\ TripReturned
  /\ \E i \in 1..Len(response.itinerary) : response.itinerary[i].type = "Direct"
  /\ \E i \in 1..Len(response.itinerary) : response.itinerary[i].type # "Direct"

\* C7: plan_trip returns at most 5 legs, the first 5 (or all) of the pairs
\* in ascending order of the departure at the origin: the legs are in that
\* order and no pair left out departs before a returned one.
C7_FirstFiveByDeparture ==
  (TripReturned /\ \A r \in Pairs : WellFormedTime(r.departure_time)) =>
    LET it == response.itinerary
        n == Cardinality(Pairs)
        omitted == {r \in Pairs : \A i \in 1..Len(it) : ~IsLegOf(it[i], r, TRUE)}
    IN /\ Len(it) <= 5
       /\ Len(it) = IF n < 5 THEN n ELSE 5
       /\ \A i \in 1..Len(it) : \E r \in Pairs : IsLegOf(it[i], r, TRUE)
       /\ \A i \in 1..Len(it), j \in 1..Len(it) :
            i < j => GtfsSeconds(it[i].leave) <= GtfsSeconds(it[j].leave)
       /\ \A r \in omitted : \A i \in 1..Len(it) :
            GtfsSeconds(it[i].leave) <= GtfsSeconds(r.departure_time)

UpstreamFailure(resp) ==
  resp.status = "error" /\ resp.code \in {500, 502, 503, 504}

\* C11: a request one of whose search queries raised ends with an upstream
\* failure (no itinerary, no NotFound).
C11_AnswerAfterFailure ==
  (Done /\ sql_errors > 0) => UpstreamFailure(response)

CoordsEntered == endpoint = "plan_trip_by_coords" /\ pc # "idle"

\* The least distance from position p to a stop that has a position.
LeastDistance(p) ==
  CHOOSE d \in {ST_Distance(p, s.pos) : s \in Placed(stops)} :
    \A s \in Placed(stops) : d <= ST_Distance(p, s.pos)

\* The resolver gave id (with the rounded distance walk) for position p:
\* a stop none is nearer than.
ResolvedNearest(p, id, walk) ==
  /\ id # NULL
  /\ \E s \in Placed(stops) :
       /\ Strip(s.stop_id) = id
       /\ ST_Distance(p, s.pos) = LeastDistance(p)
  /\ walk = PyRound(LeastDistance(p))

\* C12: the resolver fails with NotFound exactly when the store holds no
\* stop; otherwise it returns, for the origin and for the destination, a
\* stop at the least distance, however far.
C12_NearestStopResolved ==
  CoordsEntered =>
    IF stops = {} THEN pc = "done" /\ response = NoStops
    ELSE /\ Placed(stops) # {}
         /\ ResolvedNearest(origin_pos, origin_stop_id, orig_walk_meters)
         /\ ResolvedNearest(dest_pos, dest_stop_id, dest_walk_meters)
         /\ pc = "done" => response # NoStops

\* The sum of the distances of the Walk steps from step i on.
RECURSIVE WalkSumFrom(_, _)
WalkSumFrom(itinerary, i) ==
  IF i > Len(itinerary) THEN 0
  ELSE (IF itinerary[i].action = "Walk" THEN itinerary[i].distance_meters ELSE 0)
         + WalkSumFrom(itinerary, i + 1)

\* The sum of walk_meters of the legs from leg j on.
RECURSIVE LegWalkFrom(_, _)
LegWalkFrom(legs, j) ==
  IF j > Len(legs) THEN 0 ELSE legs[j].walk_meters + LegWalkFrom(legs, j + 1)

\* The position of the j-th Ride Bus step.
RidePos(itinerary, j) ==
  CHOOSE i \in RideSteps(itinerary) :
    Cardinality({k \in RideSteps(itinerary) : k <= i}) = j

\* The step before the j-th ride is a Walk of distance d to the stop where
\* leg j boards.
WalkBeforeRide(itinerary, legs, j, d) ==
  LET i == RidePos(itinerary, j)
  IN /\ i > 1
     /\ itinerary[i - 1] =
          [action |-> "Walk", destination |-> legs[j].from, distance_meters |-> d]

\* No Walk step stands right before the j-th ride.
NoWalkBeforeRide(itinerary, j) ==
  LET i == RidePos(itinerary, j)
  IN i = 1 \/ itinerary[i - 1].action # "Walk"

\* C13: in an itinerary of plan_trip_by_coords every Walk step is longer
\* than zero; the Walk distances add up to the origin walk, the walk_meters
\* of every leg and the destination walk; the first leg's walk and the
\* origin walk are one step, a later leg's nonzero walk is a step of its
\* own, and the last step is a Walk exactly when the destination walk is
\* not zero.
C13_WalkStepsAccountForAllWalking ==
  CoordsSucceeded =>
    LET it == response.itinerary
        legs == response.legs
    IN /\ Cardinality(RideSteps(it)) = Len(legs)
       /\ \A i \in 1..Len(it) :
            it[i].action = "Walk" => it[i].distance_meters > 0
       /\ WalkSumFrom(it, 1)
            = orig_walk_meters + LegWalkFrom(legs, 1) + dest_walk_meters
       /\ IF orig_walk_meters + legs[1].walk_meters > 0
          THEN WalkBeforeRide(it, legs, 1, orig_walk_meters + legs[1].walk_meters)
          ELSE NoWalkBeforeRide(it, 1)
       /\ \A j \in 2..Len(legs) :
            IF legs[j].walk_meters > 0
            THEN WalkBeforeRide(it, legs, j, legs[j].walk_meters)
            ELSE NoWalkBeforeRide(it, j)
       /\ (it[Len(it)].action = "Walk") <=> (dest_walk_meters > 0)
       /\ dest_walk_meters > 0 =>
            it[Len(it)] = [action |-> "Walk", destination |-> "Final Destination",
                           distance_meters |-> dest_walk_meters]

\* An itinerary with an origin walk, a walk between two rides and a
\* destination walk.
C13_Witness ==
  /\ CoordsSucceeded
  /\ orig_walk_meters > 0
  /\ dest_walk_meters > 0
  /\ \E j \in 2..Len(response.legs) : response.legs[j].walk_meters > 0
  /\ \E j \in 2..Len(response.legs) : response.legs[j].walk_meters = 0

\* C14 as stated: no two consecutive steps have the same action.
C14_StepsAlternate ==
  CoordsSucceeded =>
    \A i \in 1..(Len(response.itinerary) - 1) :
      response.itinerary[i].action # response.itinerary[i + 1].action

\* C14 amended: no two consecutive steps are both Walk, and the j-th ride
\* follows the ride before it directly exactly when leg j has a walk of
\* zero.
C14_NoTwoWalksAndRidesMeetAtZeroWalk ==
  CoordsSucceeded =>
    LET it == response.itinerary
        legs == response.legs
    IN /\ \A i \in 1..(Len(it) - 1) :
            ~(it[i].action = "Walk" /\ it[i + 1].action = "Walk")
       /\ Cardinality(RideSteps(it)) = Len(legs)
       /\ \A j \in 2..Len(legs) :
            (RidePos(it, j) = RidePos(it, j - 1) + 1) <=> (legs[j].walk_meters = 0)

\* Two rides in a row at one transfer and a walk between rides at another.
C14_Witness ==
  /\ CoordsSucceeded
  /\ \E i \in 1..(Len(response.itinerary) - 1) :
       /\ response.itinerary[i].action = "Ride Bus"
       /\ response.itinerary[i + 1].action = "Ride Bus"
  /\ \E i \in 2..(Len(response.itinerary) - 1) :
       /\ response.itinerary[i].action = "Walk"
       /\ response.itinerary[i - 1].action = "Ride Bus"

\* The answers a call can give when it runs alone from queue q and visited
\* set v.
RECURSIVE RunAlone(_, _)
RunAlone(q, v) ==
  IF q = <<>> THEN {NotFound}
  ELSE IF Len(Head(q).path) >= max_depth THEN RunAlone(Tail(q), v)
  ELSE LET e == Head(q)
           rowset == IF is_time_sensitive THEN BackwardRows(e.curr_id, e.constraint)
                     ELSE ForwardRows(e.curr_id)
       IN UNION {LET r == ForRows(results, 1, e.path, e.constraint, v, Tail(q))
                 IN IF r.returned THEN {Success(r.path)}
                    ELSE RunAlone(r.queue, r.visited) :
                 results \in FetchAll(rowset)}

AloneOutcomes == RunAlone(<<StartEntry>>, {StartEntry.curr_id})

\* C15: of two calls that serve a request at the same time, under every
\* interleaving of their loop iterations, each returns an answer it can
\* return when it runs alone.
C15_ConcurrentCallsAnswerAsAlone ==
  /\ MultiDone => response \in AloneOutcomes
  /\ other.pc = "done" => other.response \in AloneOutcomes

\* Both calls have answered with an itinerary of several legs.
C15_Witness ==
  /\ MultiDone /\ other.pc = "done"
  /\ response.status = "success" /\ Len(response.path) >= 2
  /\ other.response.status = "success"

\* Stops a transfer edge leads to from a stop of S (ids trimmed).
BoardFrom(S) ==
  {Strip(tr.to_stop_id) : tr \in {t \in transfers : Strip(t.from_stop_id) \in S}}

\* Stops at which a chain of exactly k legs from the origin can end, each
\* leg boarding at a stop a transfer edge leads to from the previous stop
\* and riding a trip to a later sequence number.
RECURSIVE AlightChain(_)
AlightChain(k) ==
  IF k = 0 THEN {Strip(origin_stop_id)}
  ELSE RideFrom(BoardFrom(AlightChain(k - 1)))

ChainWithinBound == \E k \in 1..max_depth : Strip(dest_stop_id) \in AlightChain(k)

\* C16: without a deadline the search ends with 404 only if no chain of 1
\* to 4 legs leads from the origin to the destination, and returns success
\* whenever such a chain exists.
C16_CompleteWithinBound ==
  (MultiDone /\ ~is_time_sensitive) =>
    /\ response = NotFound => ~ChainWithinBound
    /\ ChainWithinBound => response.status = "success"

Searching == pc = "search"

\* C17: while a search runs, in either mode, the stop ids of the queue
\* entries are pairwise distinct and all in the visited set; an iteration
\* keeps the visited set, removes the entry it pops and its stop id from the
\* queue, and enqueues only stop ids that were not visited, whatever time
\* constraint they are reached with.  So no stop id is expanded twice.
C17_NoStopExpandedTwice ==
  /\ [](Searching => \A i, j \in 1..Len(queue) :
                       queue[i].curr_id = queue[j].curr_id => i = j)
  /\ [](Searching => \A i \in 1..Len(queue) : queue[i].curr_id \in visited)
  /\ [][(Searching /\ queue # <<>>) =>
          /\ visited \subseteq visited'
          /\ Len(queue') >= Len(queue) - 1
          /\ \A i \in 1..(Len(queue) - 1) : queue'[i] = queue[i + 1]
          /\ \A i \in Len(queue)..Len(queue') :
               /\ queue'[i].curr_id \notin visited
               /\ queue'[i].curr_id \in visited'
          /\ \A i \in 1..Len(queue') : queue'[i].curr_id # Head(queue).curr_id]_vars

\* A deadline search that has expanded the destination stop, where a loop
\* trip reaches that stop again in time with another constraint (its
\* departure), and the stop is not back in the queue.
C17_Witness ==
  /\ Searching /\ endpoint = "plan_multi_transfer" /\ is_time_sensitive
  /\ queue # <<>>
  /\ LET start_node == Strip(dest_stop_id)
     IN /\ start_node # target_id
        /\ \A i \in 1..Len(queue) : queue[i].curr_id # start_node
        /\ \E row \in BackwardRows(start_node, deadline_str) :
             /\ ~Skipped(row, deadline_str)
             /\ Strip(row.prev_id) = start_node
             /\ Strip(row.departure_time) # deadline_str

\* Time a is no later than time b, both well formed and read as seconds
\* since the start of the service day (hours of 24 and more included).
NoLater(a, b) ==
  /\ WellFormedTime(a) /\ WellFormedTime(b)
  /\ GtfsSeconds(a) <= GtfsSeconds(b)

DeadlineSearching ==
  Searching /\ endpoint = "plan_multi_transfer" /\ is_time_sensitive

C19_PathChronological ==
  /\ [][(DeadlineSearching /\ queue # <<>>) =>
          /\ \A i \in Len(queue)..Len(queue') :
               Tail(queue'[i].path) = Head(queue).path
          /\ pc' = "done" /\ response'.status = "success" =>
               Tail(response'.path) = Head(queue).path]_vars
  /\ [](TimedSuccess =>
          /\ response.path[1].board_id = Strip(origin_stop_id)
          /\ \A i \in 1..(Len(response.path) - 1) :
               NoLater(response.path[i].arrival, response.path[i + 1].departure))

\* The legs a deadline-mode iteration at stop curr has to decide on: every
\* ride that alights at a stop a transfer edge leads to from curr, with both
\* of its times present.
CandidateLegs(curr) ==
  {QueryRow(tr, st1, st2) : <<tr, st1, st2>> \in
     {x \in transfers \X stop_times \X stop_times :
        /\ x[1].from_stop_id = curr
        /\ x[1].to_stop_id = x[3].stop_id
        /\ x[2].trip_id = x[3].trip_id
        /\ x[2].stop_sequence < x[3].stop_sequence
        /\ Truthy(x[2].departure_time)
        /\ Truthy(x[3].arrival_time)}}

\* The iteration accepts the leg: the query returns its row and the loop
\* does not skip it.
Accepted(row, curr, current_constraint) ==
  row \in BackwardRows(curr, current_constraint) /\ ~Skipped(row, current_constraint)

\* The leg's arrival plus its walk at 1 m/s is no later than the
\* constraint, times read as seconds of the service day.
InTime(row, current_constraint) ==
  GtfsSeconds(row.arrival_time) * WalkUnit + row.walk_meters
    <= GtfsSeconds(current_constraint) * WalkUnit

\* C20: a deadline-mode iteration accepts a leg with a well-formed arrival
\* exactly when the arrival plus the walk buffer is no later than the
\* constraint, hours of 24 and more counted as such (arrival 23:50:00 with
\* no walk is accepted under constraint 24:30:00).
C20_PostMidnightTimesCompared ==
  (DeadlineSearching /\ queue # <<>> /\ Len(Head(queue).path) < max_depth) =>
    LET e == Head(queue)
    IN \A row \in CandidateLegs(e.curr_id) :
         (WellFormedTime(row.arrival_time) /\ WellFormedTime(e.constraint)) =>
           (Accepted(row, e.curr_id, e.constraint) <=> InTime(row, e.constraint))

GenericSuccess == Succeeded /\ response.mode = "generic"

\* A transfer edge leads from stop a to stop b (ids trimmed).
EdgeBetween(a, b) ==
  \E tr \in transfers : Strip(tr.from_stop_id) = a /\ Strip(tr.to_stop_id) = b

\* Some trip visits stop b and, at a greater sequence number, stop a.
RideBetween(b, a) ==
  \E st1 \in stop_times, st2 \in stop_times :
    /\ st1.trip_id = st2.trip_id
    /\ st1.stop_sequence < st2.stop_sequence
    /\ Strip(st1.stop_id) = b
    /\ Strip(st2.stop_id) = a

\* The stop the traveller stands at before leg i of a path.
StopBefore(path, i) ==
  IF i = 1 THEN Strip(origin_stop_id) ELSE path[i - 1].alight_id

\* C21: an itinerary found without a deadline is a connected chain: every
\* leg boards at a stop a transfer edge leads to from the stop before it
\* (the origin for the first leg), rides one trip from a lower to a higher
\* sequence number, and the last leg alights at the destination stop.
C21_ConnectedChain ==
  GenericSuccess =>
    LET path == response.path
    IN /\ \A i \in 1..Len(path) :
            /\ EdgeBetween(StopBefore(path, i), path[i].board_id)
            /\ RideBetween(path[i].board_id, path[i].alight_id)
       /\ path[Len(path)].alight_id = Strip(dest_stop_id)

\* An itinerary of several legs found without a deadline, one of them
\* boarded after a walk to another stop.
C21_Witness ==
  /\ GenericSuccess
  /\ Len(response.path) >= 3
  /\ \E i \in 2..Len(response.path) :
       response.path[i].board_id # response.path[i - 1].alight_id

\* The Ride Bus step plan_trip_by_coords writes for a leg.
RideOf(leg) ==
  IF "departure" \in DOMAIN leg
  THEN [action |-> "Ride Bus", route |-> leg.route, from |-> leg.from,
        to |-> leg.to, departure |-> leg.departure, arrival |-> leg.arrival]
  ELSE [action |-> "Ride Bus", route |-> leg.route, from |-> leg.from,
        to |-> leg.to]

IsRide(step) == step.action = "Ride Bus"

BothDone == Done /\ endpoint = "plan_trip_by_coords" /\ other.pc = "done"

\* C22: plan_trip_by_coords and plan_multi_transfer called with the two
\* resolved stops and the same arrive_by fail together (404), and otherwise
\* the Ride Bus steps of the itinerary are, in order, the legs of the path
\* plan_multi_transfer returns.
C22_SameSearch ==
  BothDone =>
    /\ response = NotFoundCoords <=> other.response = NotFound
    /\ response.status = "success" =>
         /\ other.response.status = "success"
         /\ response.mode = other.response.mode
         /\ SelectSeq(response.itinerary, IsRide)
              = [i \in 1..Len(other.response.path) |-> RideOf(other.response.path[i])]

\* C23: an itinerary found without a deadline has the fewest legs: no chain
\* of fewer legs leads from the origin stop to the destination stop.
C23_FewestLegs ==
  GenericSuccess =>
    \A k \in 1..(Len(response.path) - 1) : Strip(dest_stop_id) \notin AlightChain(k)

StopIds == {Strip(st.stop_id) : st \in stops}

\* C24: every request ends with an answer, a success or the 404 "No route
\* found."; the stop ids enqueued so far (those dequeued by an iteration and
\* those waiting in the queue) are the visited ids, each enqueued once, so
\* the loop never makes more iterations than there are distinct stops plus
\* one.  (The last conjunct ties the steps whose fairness SpecLive assumes to
\* the handler's own steps.)
C24_TerminatesWithinStops ==
  /\ <>Done
  /\ [](Done => response = NotFound \/ response.status = "success")
  /\ [](iterations + Len(queue) = Cardinality(visited))
  /\ [](\A i, j \in 1..Len(queue) : queue[i].curr_id = queue[j].curr_id => i = j)
  /\ [](iterations <= Cardinality(StopIds) + 1)
  /\ [][(Entered => PlanMultiTransfer) /\ (LoopBody => Expand)]_vars

\* A search that ended after as many iterations as there are stops.
C24_Witness ==
  /\ MultiDone
  /\ iterations = Cardinality(StopIds)

\* C25: a successful answer of plan_multi_transfer has at least one leg, and
\* every entry of its path is a ride; without a deadline its last leg alights
\* at the destination stop, with a deadline its first leg boards at the
\* origin stop -- also when the origin stop is the destination stop.
C25_NeverEmptyPath ==
  Succeeded =>
    /\ Len(response.path) >= 1
    /\ \A i \in 1..Len(response.path) :
         RideBetween(response.path[i].board_id, response.path[i].alight_id)
    /\ IF response.mode = "generic"
       THEN response.path[Len(response.path)].alight_id = Strip(dest_stop_id)
       ELSE response.path[1].board_id = Strip(origin_stop_id)

\* A success for a request whose origin stop is its destination stop.
C25_Witness ==
  /\ Succeeded
  /\ Strip(origin_stop_id) = Strip(dest_stop_id)
  /\ Len(response.path) >= 1
=============================================================================
